---- MODULE Spec2Model ----
(***************************************************************************)
(* evdev-shortcut: the modifier mask model, the shortcut matching          *)
(* predicate, the shared shortcut registry and the listener event loop.    *)
(***************************************************************************)
EXTENDS Integers, Sequences, FiniteSets, TLC

(***************************************************************************)
(* u8 arithmetic (lib.rs uses &, | and count_ones on u8 masks).            *)
(***************************************************************************)
RECURSIVE BitAnd(_, _)
BitAnd(a, b) ==
    IF a = 0 \/ b = 0 THEN 0
    ELSE (a % 2) * (b % 2) + 2 * BitAnd(a \div 2, b \div 2)

RECURSIVE BitOr(_, _)
BitOr(a, b) ==
    IF a = 0 THEN b
    ELSE IF b = 0 THEN a
    ELSE (IF (a % 2) + (b % 2) > 0 THEN 1 ELSE 0) + 2 * BitOr(a \div 2, b \div 2)

RECURSIVE count_ones(_)
count_ones(a) == IF a = 0 THEN 0 ELSE (a % 2) + count_ones(a \div 2)

(***************************************************************************)
(* Keys.  The Key enum lives in the keycodes module; the keys used here    *)
(* are the eight modifier keys and the ordinary keys of the crate's tests  *)
(* and examples.                                                           *)
(***************************************************************************)
ModifierKeys ==
    {"KeyLeftAlt", "KeyRightAlt", "KeyLeftCtrl", "KeyRightCtrl",
     "KeyLeftMeta", "KeyRightMeta", "KeyLeftShift", "KeyRightShift"}

OrdinaryKeys == {"KeyP", "KeyN", "KeyLeft", "KeyRight"}

Keys == ModifierKeys \cup OrdinaryKeys

\* Key::try_from(code): the evdev key code of each key; any other code fails.
KeyCodes ==
    [KeyLeftAlt |-> 56, KeyRightAlt |-> 100, KeyLeftCtrl |-> 29,
     KeyRightCtrl |-> 97, KeyLeftMeta |-> 125, KeyRightMeta |-> 126,
     KeyLeftShift |-> 42, KeyRightShift |-> 54, KeyP |-> 25, KeyN |-> 49,
     KeyLeft |-> 105, KeyRight |-> 106]

Key_try_from(code) ==
    IF \E k \in Keys : KeyCodes[k] = code
    THEN [ok |-> TRUE, key |-> CHOOSE k \in Keys : KeyCodes[k] = code]
    ELSE [ok |-> FALSE, key |-> "none"]

(***************************************************************************)
(* Modifiers and masks.                                                    *)
(***************************************************************************)
ALL_MODIFIERS ==
    <<"Alt", "LeftAlt", "RightAlt", "Ctrl", "LeftCtrl", "RightCtrl",
      "Shift", "LeftShift", "RightShift", "Meta", "LeftMeta", "RightMeta">>

COMBINED_MODIFIERS == <<"Alt", "Ctrl", "Shift", "Meta">>

Modifier == {ALL_MODIFIERS[i] : i \in 1..Len(ALL_MODIFIERS)}

\* Modifier::mask
Modifier_mask(m) ==
    CASE m = "Alt" -> 3
      [] m = "LeftAlt" -> 1
      [] m = "RightAlt" -> 2
      [] m = "Ctrl" -> 12
      [] m = "LeftCtrl" -> 4
      [] m = "RightCtrl" -> 8
      [] m = "Meta" -> 48
      [] m = "LeftMeta" -> 16
      [] m = "RightMeta" -> 32
      [] m = "Shift" -> 192
      [] m = "LeftShift" -> 64
      [] m = "RightShift" -> 128

\* Modifier::mask_from_key
mask_from_key(key) ==
    CASE key = "KeyLeftAlt" -> 1
      [] key = "KeyRightAlt" -> 2
      [] key = "KeyLeftCtrl" -> 4
      [] key = "KeyRightCtrl" -> 8
      [] key = "KeyLeftMeta" -> 16
      [] key = "KeyRightMeta" -> 32
      [] key = "KeyLeftShift" -> 64
      [] key = "KeyRightShift" -> 128
      [] OTHER -> 0

\* new keeping only the mask of the last modifier of the slice.
ModifierList_new_last_only(modifiers) ==
    IF modifiers = <<>> THEN 0 ELSE Modifier_mask(modifiers[Len(modifiers)])

\* ModifierList::new: fold of | over the slice, from 0.
RECURSIVE ModifierList_new(_)
ModifierList_new(modifiers) ==
    IF modifiers = <<>> THEN 0
    ELSE BitOr(ModifierList_new(SubSeq(modifiers, 1, Len(modifiers) - 1)),
               Modifier_mask(modifiers[Len(modifiers)]))

\* The filter without the loop over COMBINED_MODIFIERS.
modifiers_filter_keeps_sides(mask, modifier) ==
    BitAnd(Modifier_mask(modifier), mask) = Modifier_mask(modifier)

\* The filter closure of ModifierList::modifiers.
modifiers_filter(mask, modifier) ==
    IF \E i \in 1..Len(COMBINED_MODIFIERS) :
          LET combined == COMBINED_MODIFIERS[i] IN
            /\ combined # modifier
            /\ BitAnd(Modifier_mask(combined), Modifier_mask(modifier))
                 = Modifier_mask(modifier)
            /\ BitAnd(Modifier_mask(combined), mask) = Modifier_mask(combined)
    THEN FALSE
    ELSE BitAnd(Modifier_mask(modifier), mask) = Modifier_mask(modifier)

\* ModifierList::modifiers
ModifierList_modifiers(mask) ==
    SelectSeq(ALL_MODIFIERS, LAMBDA m : modifiers_filter(mask, m))

\* ModifierList::len
ModifierList_len(mask) == Len(ModifierList_modifiers(mask))

\* Shortcut::new
Shortcut_new(modifiers, key) ==
    [modifiers |-> ModifierList_new(modifiers), key |-> key]

\* The fold of is_triggered: | of mask_from_key over the active keys.
RECURSIVE pressed_mask_of(_)
pressed_mask_of(active) ==
    IF active = {} THEN 0
    ELSE LET k == CHOOSE x \in active : TRUE
         IN  BitOr(pressed_mask_of(active \ {k}), mask_from_key(k))

\* is_triggered without the check that no other modifier is held.
is_triggered_allows_extra(shortcut, active) ==
    LET desired_mask    == shortcut.modifiers
        pressed_mask    == pressed_mask_of(active)
        desired_presses == BitAnd(desired_mask, pressed_mask)
        modifiers_match == count_ones(desired_presses)
                             = ModifierList_len(shortcut.modifiers)
    IN  modifiers_match /\ shortcut.key \in active

\* Shortcut::is_triggered
is_triggered(shortcut, active) ==
    LET desired_mask    == shortcut.modifiers
        pressed_mask    == pressed_mask_of(active)
        desired_presses == BitAnd(desired_mask, pressed_mask)
        modifiers_match == /\ desired_presses = pressed_mask
                           /\ count_ones(desired_presses)
                                = ModifierList_len(shortcut.modifiers)
    IN  modifiers_match /\ shortcut.key \in active

(***************************************************************************)
(* The textual form of shortcuts: Display and FromStr.                     *)
(***************************************************************************)
\* The index of the first occurrence of the character c in s, 0 if none.
str_find(s, c) ==
    LET hits == {i \in 1..Len(s) : SubSeq(s, i, i) = c}
    IN  IF hits = {} THEN 0 ELSE CHOOSE i \in hits : \A j \in hits : i <= j

\* str::split: the parts between the occurrences of c, empty parts included.
RECURSIVE str_split(_, _)
str_split(s, c) ==
    LET i == str_find(s, c)
    IN  IF i = 0 THEN <<s>>
        ELSE <<SubSeq(s, 1, i - 1)>> \o str_split(SubSeq(s, i + 1, Len(s)), c)

\* str::split_once: the parts before and after the first occurrence of c.
str_split_once(s, c) ==
    LET i == str_find(s, c)
    IN  IF i = 0 THEN [some |-> FALSE, before |-> "", after |-> ""]
        ELSE [some |-> TRUE, before |-> SubSeq(s, 1, i - 1),
              after |-> SubSeq(s, i + 1, Len(s))]

str_starts_with(s, c) == Len(s) > 0 /\ SubSeq(s, 1, 1) = c

\* #[derive(Display, FromStr)] on Modifier: the variant's name, matched exactly.
Modifier_to_string(m) == m

Modifier_from_str(s) ==
    IF s \in Modifier THEN [ok |-> TRUE, modifier |-> s]
    ELSE [ok |-> FALSE, modifier |-> "none"]

\* Display and FromStr of Key: the key's name, matched exactly.
Key_to_string(k) == k

Key_from_str(s) ==
    IF s \in Keys THEN [ok |-> TRUE, key |-> s]
    ELSE [ok |-> FALSE, key |-> "none"]

\* impl Display for ModifierList: "<Name>" for each modifier of modifiers().
RECURSIVE write_modifiers(_)
write_modifiers(mods) ==
    IF mods = <<>> THEN ""
    ELSE "<" \o Modifier_to_string(Head(mods)) \o ">"
             \o write_modifiers(Tail(mods))

ModifierList_display(mask) == write_modifiers(ModifierList_modifiers(mask))

\* The map closure of ModifierList::from_str on one part.
parse_part(part) ==
    IF ~str_starts_with(part, "<")
    THEN [ok |-> FALSE, modifier |-> "none"]
    ELSE Modifier_from_str(SubSeq(part, 2, Len(part)))

\* from_str of ModifierList with the empty parts of the split kept.
ModifierList_from_str_keeps_empty(s) ==
    LET parts == str_split(s, ">")
        results == [i \in 1..Len(parts) |-> parse_part(parts[i])]
    IN  IF \E i \in 1..Len(results) : ~results[i].ok
        THEN [ok |-> FALSE, mask |-> 0]
        ELSE [ok |-> TRUE,
              mask |-> ModifierList_new(
                          [i \in 1..Len(results) |-> results[i].modifier])]

\* impl FromStr for ModifierList: split at '>', drop the empty parts, parse
\* each part, fail on the first part that fails.
ModifierList_from_str(s) ==
    LET parts == SelectSeq(str_split(s, ">"), LAMBDA part : part # "")
        results == [i \in 1..Len(parts) |-> parse_part(parts[i])]
    IN  IF \E i \in 1..Len(results) : ~results[i].ok
        THEN [ok |-> FALSE, mask |-> 0]
        ELSE [ok |-> TRUE,
              mask |-> ModifierList_new(
                          [i \in 1..Len(results) |-> results[i].modifier])]

ParseError == [done |-> TRUE, ok |-> FALSE, shortcut |-> [modifiers |-> 0, key |-> "none"]]

ParseOk(mask, key) ==
    [done |-> TRUE, ok |-> TRUE, shortcut |-> [modifiers |-> mask, key |-> key]]

NotParsed == [done |-> FALSE, ok |-> FALSE, shortcut |-> [modifiers |-> 0, key |-> "none"]]

\* impl FromStr for Shortcut
Shortcut_from_str(s) ==
    LET split == str_split_once(s, "-")
    IN  IF split.some
        THEN LET modifiers == ModifierList_from_str(split.before)
                 key == Key_from_str(split.after)
             IN  IF ~modifiers.ok THEN ParseError
                 ELSE IF ~key.ok THEN ParseError
                 ELSE ParseOk(modifiers.mask, key.key)
        ELSE LET key == Key_from_str(s)
             IN  IF ~key.ok THEN ParseError ELSE ParseOk(0, key.key)

\* ModifierList::is_empty
ModifierList_is_empty(mask) == mask = 0

\* impl Display for Shortcut
Shortcut_display(shortcut) ==
    IF ModifierList_is_empty(shortcut.modifiers)
    THEN Key_to_string(shortcut.key)
    ELSE ModifierList_display(shortcut.modifiers) \o "-"
             \o Key_to_string(shortcut.key)


(***************************************************************************)
(* Model parameters.                                                       *)
(***************************************************************************)
MaxEvents == 2

Threads == {"t1", "t2"}

Devices == {"A", "B"}

\* The devices into_event_stream may succeed on.
StreamOutcomes == {{"A", "B"}, {"A"}}

\* The device lists handed to listen.
DeviceLists == {<<"A", "B">>}

CtrlP == Shortcut_new(<<"Ctrl">>, "KeyP")
PlainP == Shortcut_new(<<>>, "KeyP")
MetaN == Shortcut_new(<<"Meta">>, "KeyN")

\* The shortcut registered before listen is called (as in the crate's example).
Registered == {CtrlP}

\* The shortcuts callers add and remove while the session runs.
Pool == {PlainP}

\* One item of a device's event stream: Ok(event) with (code, value), or Err.
RawEvent(code, value) == [ok |-> TRUE, code |-> code, value |-> value]
ErrItem == [ok |-> FALSE, code |-> 0, value |-> 0]

\* Items the devices deliver: press and release of LeftCtrl and KeyP, a repeat
\* of KeyP, an event with a code that is no Key, and a stream error.
Items ==
    {RawEvent(KeyCodes[k], v) : k \in {"KeyLeftCtrl", "KeyP"}, v \in {0, 1}}
      \cup {RawEvent(KeyCodes["KeyP"], 2), RawEvent(767, 1), ErrItem}

NoEvent == [ok |-> FALSE, code |-> 0, value |-> 0]

NoShortcut == [modifiers |-> 0, key |-> "none"]

None == [shortcut |-> NoShortcut, state |-> "none"]

NoCall == [op |-> "none", s |-> NoShortcut]

Ops == {"add", "remove", "has"}

AllShortcuts == Registered \cup Pool \cup {MetaN}

VARIABLES
    shortcuts,          \* ShortcutListener.shortcuts, the set behind the Mutex
    lock,               \* holder of the Mutex: "free", "listener" or a thread
    tpc, treq,          \* each caller thread: position and pending call
    requested,          \* the devices argument of the listen call
    unopenable,         \* the requested devices Device::open fails on
    session,            \* "none", "failed", "running", "ended"
    openErr,            \* DeviceOpenError.device of a failed listen
    streams,            \* the event streams under flatten, in order
    cur,                \* flatten: index of the inner stream being polled
    queue,              \* per device: items delivered and not yet read
    closed,             \* per device: its event stream has ended
    delivered,          \* number of steps the devices have taken
    pc,                 \* the stream! generator: "off", "next", "lock", "copy",
                        \* "scan", "yield"
    active_keys, pressed_shortcuts,
    todo,               \* the part of the snapshot Vec the for loop has not reached
    yielded,            \* the ShortcutEvent handed to the consumer at a yield
    event,              \* the raw event being processed (NoEvent before the first)
    prevActive,         \* active_keys before the raw event being processed
    prevPressed,        \* pressed_shortcuts before the raw event being processed
    prevSnap, curSnap,  \* the registry snapshots of the previous and this event
    emittedNow,         \* events emitted while processing this raw event
    emitted,            \* per shortcut, the state it was last emitted with
    callLog,            \* completed registry calls, in order (recorded by SpecRegistry)
    out,                \* emitted events, in order (recorded by SpecEdge)
    p_shortcut, p_active,   \* the inputs of a predicate evaluation
    p_done, p_result,       \* whether is_triggered has returned, and its result
    p_list,                 \* the modifier slice given to new
    p_mods,                 \* the sequence modifiers() yielded
    p_text,                 \* a shortcut string: the output of Display
    p_parsed,               \* the result of parsing p_text
    p_stage                 \* how far the construction / formatting has got

registryVars == <<shortcuts, lock, tpc, treq>>
deviceVars == <<requested, unopenable, session, openErr, streams, cur,
                queue, closed, delivered>>
loopVars == <<pc, active_keys, pressed_shortcuts, todo, yielded>>
eventVars == <<event, prevActive, prevPressed, prevSnap, curSnap,
               emittedNow, emitted>>
textVars == <<p_list, p_mods, p_text, p_parsed, p_stage>>
pureVars == <<p_shortcut, p_active, p_done, p_result, textVars>>
vars == <<registryVars, deviceVars, loopVars, eventVars, callLog, out, pureVars>>

(***************************************************************************)
(* The registry: add, remove, has.  Each call locks the Mutex, acts on the *)
(* HashSet and unlocks when the guard is dropped.                          *)
(***************************************************************************)
\* add returning whether the shortcut was present.
registry_add_returns_present(set, s) == [ret |-> s \in set, set |-> set \cup {s}]

registry_add(set, s) == [ret |-> s \notin set, set |-> set \cup {s}]

registry_remove(set, s) == [ret |-> s \in set, set |-> set \ {s}]

registry_has(set, s) == [ret |-> s \in set, set |-> set]

registry_call(op, set, s) ==
    CASE op = "add" -> registry_add(set, s)
      [] op = "remove" -> registry_remove(set, s)
      [] op = "has" -> registry_has(set, s)

\* self.shortcuts.lock(): blocks while the Mutex is held.
CallLock(t, op, s) ==
    /\ tpc[t] = "idle"
    /\ lock = "free"
    /\ lock' = t
    /\ tpc' = [tpc EXCEPT ![t] = "locked"]
    /\ treq' = [treq EXCEPT ![t] = [op |-> op, s |-> s]]
    /\ UNCHANGED <<shortcuts, deviceVars, loopVars, eventVars, callLog, out,
                   pureVars>>

\* insert / remove / contains under the guard, then the guard is dropped.
CallRun(t) ==
    /\ tpc[t] = "locked"
    /\ shortcuts' = registry_call(treq[t].op, shortcuts, treq[t].s).set
    /\ lock' = "free"
    /\ tpc' = [tpc EXCEPT ![t] = "idle"]
    /\ treq' = [treq EXCEPT ![t] = NoCall]
    /\ UNCHANGED <<deviceVars, loopVars, eventVars, out, pureVars>>


(***************************************************************************)
(* listen: opening the devices.                                            *)
(***************************************************************************)
\* Opening that skips the devices that fail and goes on with the others.
open_devices_skips_failed(paths, canOpen) ==
    [ok |-> TRUE, device |-> "none",
     devices |-> SelectSeq(paths, LAMBDA d : d \in canOpen)]

\* devices.iter().map(open).collect::<Result<Vec<_>, _>>(): the devices are
\* opened in order and the first failure is the result.
open_devices(paths, canOpen) ==
    IF \E i \in 1..Len(paths) : paths[i] \notin canOpen
    THEN LET i == CHOOSE j \in 1..Len(paths) :
                     /\ paths[j] \notin canOpen
                     /\ \A k \in 1..(j - 1) : paths[k] \in canOpen
         IN  [ok |-> FALSE, device |-> paths[i], devices |-> <<>>]
    ELSE [ok |-> TRUE, device |-> "none", devices |-> paths]

\* devices.into_iter().flat_map(|device| device.into_event_stream()): a device
\* whose into_event_stream fails contributes no stream.
event_streams(devices, canStream) ==
    SelectSeq(devices, LAMBDA d : d \in canStream)

Listen(paths, canOpen, canStream) ==
    /\ session = "none"
    /\ requested' = paths
    /\ unopenable' = {paths[i] : i \in 1..Len(paths)} \ canOpen
    /\ LET r == open_devices(paths, canOpen)
       IN  IF r.ok
           THEN /\ session' = "running"
                /\ streams' = event_streams(r.devices, canStream)
                /\ pc' = "next"
                /\ UNCHANGED openErr
           ELSE /\ session' = "failed"
                /\ openErr' = r.device
                /\ UNCHANGED <<streams, pc>>
    /\ UNCHANGED <<registryVars, cur, queue, closed, delivered,
                   active_keys, pressed_shortcuts, todo, yielded, eventVars,
                   callLog, out, pureVars>>

(***************************************************************************)
(* The devices (the evdev collaborator): an item arrives, a stream ends.   *)
(***************************************************************************)
Streaming == {streams[i] : i \in 1..Len(streams)}

Arrive(d, item) ==
    /\ session = "running"
    /\ d \in Streaming
    /\ ~closed[d]
    /\ delivered < MaxEvents
    /\ delivered' = delivered + 1
    /\ queue' = [queue EXCEPT ![d] = Append(@, item)]
    /\ UNCHANGED <<registryVars, requested, unopenable, session, openErr,
                   streams, cur, closed, loopVars, eventVars, callLog, out, pureVars>>

Close(d) ==
    /\ session = "running"
    /\ d \in Streaming
    /\ ~closed[d]
    /\ delivered < MaxEvents
    /\ delivered' = delivered + 1
    /\ closed' = [closed EXCEPT ![d] = TRUE]
    /\ UNCHANGED <<registryVars, requested, unopenable, session, openErr,
                   streams, cur, queue, loopVars, eventVars, callLog, out, pureVars>>

(***************************************************************************)
(* The stream! generator: the event loop of listen.                        *)
(***************************************************************************)
\* The key update with the release arm lost.
update_active_keys_never_removes(active, code, value) ==
    LET r == Key_try_from(code)
    IN  IF r.ok /\ value = 1 THEN active \cup {r.key} ELSE active

\* The key update with every value other than 0 taken as a press.
update_active_keys_repeat_inserts(active, code, value) ==
    LET r == Key_try_from(code)
    IN  IF r.ok
        THEN IF value = 0 THEN active \ {r.key} ELSE active \cup {r.key}
        ELSE active

\* if let Ok(key) = Key::try_from(event.code()) { match event.value() {...} }
update_active_keys(active, code, value) ==
    LET r == Key_try_from(code)
    IN  IF r.ok
        THEN CASE value = 1 -> active \cup {r.key}
               [] value = 0 -> active \ {r.key}
               [] OTHER -> active
        ELSE active

\* The scan without the was_triggered test on the Pressed branch.
edge_ignores_was(now_triggered, was_triggered) ==
    IF now_triggered THEN "Pressed"
    ELSE IF was_triggered THEN "Released"
    ELSE "none"

\* The scan without the was_triggered test on the Released branch.
edge_release_unmatched(now_triggered, was_triggered) ==
    IF now_triggered /\ ~was_triggered THEN "Pressed"
    ELSE IF ~now_triggered THEN "Released"
    ELSE "none"

\* The scan without its Released branch.
edge_never_released(now_triggered, was_triggered) ==
    IF now_triggered /\ ~was_triggered THEN "Pressed" ELSE "none"

\* The two branches of the scan: what is yielded for a shortcut, if anything.
edge(now_triggered, was_triggered) ==
    IF now_triggered /\ ~was_triggered THEN "Pressed"
    ELSE IF ~now_triggered /\ was_triggered THEN "Released"
    ELSE "none"

\* The inner stream flatten polls: streams are read one after the other.
flatten_current(ss, i) == IF i <= Len(ss) THEN ss[i] ELSE "none"

\* events.next() yields Some(Ok(event)): the active keys are updated.
PollEvent ==
    /\ session = "running" /\ pc = "next"
    /\ LET d == flatten_current(streams, cur)
       IN  /\ d # "none"
           /\ queue[d] # <<>>
           /\ Head(queue[d]).ok
           /\ event' = Head(queue[d])
           /\ active_keys' =
                update_active_keys(active_keys, event'.code, event'.value)
           /\ queue' = [queue EXCEPT ![d] = Tail(@)]
    /\ pc' = "lock"
    /\ prevActive' = active_keys
    /\ prevPressed' = pressed_shortcuts
    /\ prevSnap' = curSnap
    /\ emittedNow' = {}
    /\ UNCHANGED <<registryVars, requested, unopenable, session, openErr,
                   streams, cur, closed, delivered, pressed_shortcuts, todo, yielded, curSnap,
                   emitted, callLog, out, pureVars>>

\* events.next() yields Some(Err(_)): the while let pattern fails, the loop
\* and with it the output stream end.
PollErr ==
    /\ session = "running" /\ pc = "next"
    /\ LET d == flatten_current(streams, cur)
       IN  /\ d # "none"
           /\ queue[d] # <<>>
           /\ ~Head(queue[d]).ok
           /\ queue' = [queue EXCEPT ![d] = Tail(@)]
    /\ session' = "ended"
    /\ pc' = "off"
    /\ UNCHANGED <<registryVars, requested, unopenable, openErr, streams,
                   cur, closed, delivered, active_keys, pressed_shortcuts, todo, yielded,
                   eventVars, callLog, out, pureVars>>

\* The inner stream being polled has ended: flatten goes on to the next one.
PollInnerEnd ==
    /\ session = "running" /\ pc = "next"
    /\ LET d == flatten_current(streams, cur)
       IN  d # "none" /\ queue[d] = <<>> /\ closed[d]
    /\ cur' = cur + 1
    /\ UNCHANGED <<registryVars, requested, unopenable, session, openErr,
                   streams, queue, closed, delivered, loopVars, eventVars, callLog, out,
                   pureVars>>

\* No stream is left: events.next() yields None and the loop ends.
PollEnd ==
    /\ session = "running" /\ pc = "next"
    /\ flatten_current(streams, cur) = "none"
    /\ session' = "ended"
    /\ pc' = "off"
    /\ UNCHANGED <<registryVars, requested, unopenable, openErr, streams,
                   cur, queue, closed, delivered, active_keys, pressed_shortcuts, todo, yielded,
                   eventVars, callLog, out, pureVars>>

\* shortcuts.lock(): the loop takes the Mutex.
SnapLock ==
    /\ pc = "lock"
    /\ lock = "free"
    /\ lock' = "listener"
    /\ pc' = "copy"
    /\ UNCHANGED <<shortcuts, tpc, treq, deviceVars, active_keys,
                   pressed_shortcuts, todo, yielded, eventVars, callLog, out,
                   pureVars>>

\* The snapshot with the guard kept alive over the scan.
SnapCopy_keeps_guard ==
    /\ pc = "copy"
    /\ todo' = shortcuts
    /\ curSnap' = shortcuts
    /\ pc' = "scan"
    /\ UNCHANGED <<registryVars, deviceVars, active_keys,
                   pressed_shortcuts, yielded, event, prevActive,
                   prevPressed, prevSnap, emittedNow, emitted, callLog, out,
                   pureVars>>

\* .iter().cloned().collect(): the registry is copied, the guard dropped.
SnapCopy ==
    /\ pc = "copy"
    /\ todo' = shortcuts
    /\ curSnap' = shortcuts
    /\ lock' = "free"
    /\ pc' = "scan"
    /\ UNCHANGED <<shortcuts, tpc, treq, deviceVars, active_keys,
                   pressed_shortcuts, yielded, event, prevActive,
                   prevPressed, prevSnap, emittedNow, emitted, callLog, out,
                   pureVars>>

\* One iteration of for shortcut in shortcuts (a HashSet's order is arbitrary).
ScanStep(s) ==
    /\ pc = "scan"
    /\ s \in todo
    /\ todo' = todo \ {s}
    /\ LET e == edge(is_triggered(s, active_keys), s \in pressed_shortcuts)
       IN  /\ pressed_shortcuts' =
                CASE e = "Pressed" -> pressed_shortcuts \cup {s}
                  [] e = "Released" -> pressed_shortcuts \ {s}
                  [] OTHER -> pressed_shortcuts
           /\ IF e = "none"
              THEN UNCHANGED <<pc, yielded, emittedNow, emitted>>
              ELSE /\ pc' = "yield"
                   /\ yielded' = [shortcut |-> s, state |-> e]
                   /\ emittedNow' = emittedNow \cup {[shortcut |-> s, state |-> e]}
                   /\ emitted' = [emitted EXCEPT ![s] = e]
    /\ UNCHANGED <<registryVars, deviceVars, active_keys, event,
                   prevActive, prevPressed, prevSnap, curSnap, callLog, pureVars>>

\* The consumer polls again: the generator resumes after the yield.
Resume ==
    /\ pc = "yield"
    /\ pc' = "scan"
    /\ yielded' = None
    /\ UNCHANGED <<registryVars, deviceVars, active_keys, pressed_shortcuts, todo,
                   eventVars, callLog, out, pureVars>>

\* The for loop is over: back to events.next().
ScanDone ==
    /\ pc = "scan"
    /\ todo = {}
    /\ pc' = "next"
    /\ UNCHANGED <<registryVars, deviceVars, active_keys, pressed_shortcuts, todo,
                   yielded, eventVars, callLog, out, pureVars>>


(***************************************************************************)
(* The system: caller threads, the devices, one listen session.            *)
(***************************************************************************)
InitRegistry ==
    /\ lock = "free"
    /\ tpc = [t \in Threads |-> "idle"]
    /\ treq = [t \in Threads |-> NoCall]
    /\ callLog = <<>>

InitSession ==
    /\ requested = <<>>
    /\ unopenable = {}
    /\ session = "none"
    /\ openErr = "none"
    /\ streams = <<>>
    /\ cur = 1
    /\ queue = [d \in Devices |-> <<>>]
    /\ closed = [d \in Devices |-> FALSE]
    /\ delivered = 0
    /\ pc = "off"
    /\ active_keys = {}
    /\ pressed_shortcuts = {}
    /\ todo = {}
    /\ yielded = None
    /\ event = NoEvent
    /\ prevActive = {}
    /\ prevPressed = {}
    /\ prevSnap = {}
    /\ curSnap = {}
    /\ emittedNow = {}
    /\ emitted = [s \in AllShortcuts |-> "none"]
    /\ out = <<>>

InitText ==
    /\ p_list = <<>>
    /\ p_mods = <<>>
    /\ p_text = ""
    /\ p_parsed = NotParsed
    /\ p_stage = "none"

InitPure ==
    /\ p_shortcut = NoShortcut
    /\ p_active = {}
    /\ p_done = FALSE
    /\ p_result = FALSE
    /\ InitText

Init ==
    /\ shortcuts = Registered
    /\ InitRegistry
    /\ InitSession
    /\ InitPure

Call ==
    \/ \E op \in {"add", "remove"}, s \in Pool : CallLock("t1", op, s)
    \/ CallRun("t1") /\ UNCHANGED callLog

Device ==
    \/ \E d \in Devices, item \in Items : Arrive(d, item)
    \/ \E d \in Devices : Close(d)

Loop ==
    \/ PollEvent
    \/ PollErr
    \/ PollInnerEnd
    \/ PollEnd
    \/ SnapLock
    \/ SnapCopy
    \/ \E s \in AllShortcuts : ScanStep(s) /\ UNCHANGED out
    \/ Resume
    \/ ScanDone

Next ==
    \/ Call
    \/ \E paths \in DeviceLists, canOpen \in SUBSET Devices,
          canStream \in StreamOutcomes :
          Listen(paths, canOpen, canStream)
    \/ Device
    \/ Loop

Spec == Init /\ [][Next]_vars


(***************************************************************************)
(* Properties of the listen session under Spec.                            *)
(***************************************************************************)
Pressed(s) == [shortcut |-> s, state |-> "Pressed"]
Released(s) == [shortcut |-> s, state |-> "Released"]

\* The loop has finished processing a raw event and awaits the next one.
Processed == session = "running" /\ pc = "next" /\ event.ok

\* The step hands the event e to the consumer.
Emits(e) == yielded = None /\ yielded' = e

\* C2: the events emitted for a shortcut within a session alternate Pressed,
\* Released, Pressed, ..., starting with Pressed, whatever the interleaving of
\* raw events and registry calls.
C2_Alternation ==
    [][\A s \in AllShortcuts :
          /\ Emits(Pressed(s)) => emitted[s] \in {"none", "Released"}
          /\ Emits(Released(s)) => emitted[s] = "Pressed"]_vars

C2_Witness ==
    /\ yielded = Released(PlainP)
    /\ PlainP \notin pressed_shortcuts
    /\ emitted[CtrlP] = "Pressed"

\* C3 as stated: while processing a raw event the loop emits {s, Pressed} iff
\* the event changed is_triggered(s, active_keys) from false to true, and
\* {s, Released} iff it changed it from true to false, for every registered s.
C3_EmitsOnStatusFlip ==
    Processed =>
      \A s \in AllShortcuts :
        /\ Pressed(s) \in emittedNow <=>
             /\ s \in curSnap
             /\ ~is_triggered(s, prevActive)
             /\ is_triggered(s, active_keys)
        /\ Released(s) \in emittedNow <=>
             /\ s \in curSnap
             /\ is_triggered(s, prevActive)
             /\ ~is_triggered(s, active_keys)

\* C3 amended: the flip is relative to the triggered set.  While processing a
\* raw event the loop emits {s, Pressed} iff s is in the registry snapshot, s
\* is triggered by the active keys and s was not in the triggered set, and
\* {s, Released} iff s is in the snapshot, is not triggered and was in the
\* triggered set.
C3_EmitsOnTriggeredSetFlip ==
    Processed =>
      \A s \in AllShortcuts :
        /\ Pressed(s) \in emittedNow <=>
             /\ s \in curSnap
             /\ is_triggered(s, active_keys)
             /\ s \notin prevPressed
        /\ Released(s) \in emittedNow <=>
             /\ s \in curSnap
             /\ ~is_triggered(s, active_keys)
             /\ s \in prevPressed

\* A shortcut added while its keys were held is emitted Pressed by a later raw
\* event that did not change its status.
C3_Witness ==
    /\ Processed
    /\ Pressed(PlainP) \in emittedNow
    /\ is_triggered(PlainP, prevActive)
    /\ is_triggered(PlainP, active_keys)

\* C4 as stated: no device's events are left unconsumed while another device's
\* stream is still open: whenever the loop is suspended in events.next() with
\* nothing it can take, no stream of the session holds an undelivered item.
C4_NoDeviceStarved ==
    (session = "running" /\ pc = "next"
       /\ ~ENABLED (PollEvent \/ PollErr \/ PollInnerEnd \/ PollEnd))
      => \A d \in Streaming : queue[d] = <<>>

Undecodable == event.ok /\ ~Key_try_from(event.code).ok

\* C7 as stated: processing a raw event whose code does not decode to a Key
\* leaves the active-key set unchanged and emits no ShortcutEvent, whatever
\* the registry holds at that moment.
C7_UndecodableEmitsNothing ==
    Undecodable => active_keys = prevActive /\ emittedNow = {}

\* C7 amended: such an event leaves the active-key set unchanged and emits no
\* ShortcutEvent for any shortcut that was in the registry snapshot of the
\* previous raw event; it can emit only for shortcuts added since.
C7_UndecodableEmitsOnlyForAdded ==
    Undecodable =>
      /\ active_keys = prevActive
      /\ \A e \in emittedNow : e.shortcut \notin prevSnap

C7_Witness ==
    /\ Undecodable
    /\ Processed
    /\ prevSnap = {CtrlP, PlainP}
    /\ curSnap = prevSnap
    /\ pressed_shortcuts # {}
    /\ emittedNow = {}

\* C8 as stated: an Err item is dropped and does not end the session: the
\* output stream ends only when the source stream itself has ended, that is
\* every device stream has ended and has been read to its end.
C8_EndsOnlyAtSourceEnd ==
    session = "ended" => \A d \in Streaming : closed[d] /\ queue[d] = <<>>

\* C10: if opening one of the devices fails, listen returns DeviceOpenError
\* naming a path that failed to open, no loop is started, no event is ever
\* produced from that call, and the registry is left as it was.
C10_OpenFailure ==
    [][/\ (session = "none" /\ session' # "none" /\ unopenable' # {}) =>
            /\ session' = "failed"
            /\ openErr' \in unopenable'
            /\ shortcuts' = shortcuts
            /\ pc' = "off"
       /\ session = "failed" =>
            /\ session' = "failed"
            /\ pc' = "off"
            /\ yielded' = None
            /\ emittedNow' = {}]_vars

\* B fails to open after A was opened; callers go on using the registry.
C10_Witness ==
    /\ session = "failed"
    /\ unopenable = {"B"}
    /\ openErr = "B"
    /\ PlainP \in shortcuts

\* The step reads a raw event from the source stream.
ReadsEvent == pc = "next" /\ pc' = "lock"

\* The keys the code decodes to: one key, or none for an unknown code.
DecodedKeys(code) == {k \in Keys : KeyCodes[k] = code}

\* C16: the active-key set starts empty; reading a raw event that decodes to
\* k inserts k on value 1, removes k on value 0 and changes nothing on any
\* other value; an event that does not decode changes nothing; no other step,
\* registry calls included, changes the set.  So k is active iff the last
\* event for k with value 0 or 1 had value 1.
C16_ActiveKeysFollowEvents ==
    /\ active_keys = {}
    /\ [][IF ReadsEvent
          THEN active_keys' =
                 CASE event'.value = 1 -> active_keys \cup DecodedKeys(event'.code)
                   [] event'.value = 0 -> active_keys \ DecodedKeys(event'.code)
                   [] OTHER -> active_keys
          ELSE active_keys' = active_keys]_vars

\* A repeat of KeyP has been processed after its press: KeyP is still active.
C16_Witness ==
    /\ Processed
    /\ event = RawEvent(KeyCodes["KeyP"], 2)
    /\ active_keys = {"KeyP"}
    /\ prevActive = {"KeyP"}

\* C17: whenever a raw event has been processed, every shortcut in the
\* triggered set satisfies is_triggered against the active-key set, whatever
\* the interleaving of raw events with add and remove calls.
C17_TriggeredSetIsSatisfied ==
    Processed => \A s \in pressed_shortcuts : is_triggered(s, active_keys)

\* What the scan does maintain: a shortcut of the snapshot taken for the
\* event is in the triggered set iff it is satisfied, and a shortcut outside
\* the snapshot keeps the membership it had before the event.
TriggeredSetAgreesOnSnapshot ==
    Processed =>
      /\ \A s \in curSnap :
            s \in pressed_shortcuts <=> is_triggered(s, active_keys)
      /\ \A s \in AllShortcuts \ curSnap :
            s \in pressed_shortcuts <=> s \in prevPressed


(***************************************************************************)
(* SpecEdge: one session on one device with <Meta>-KeyN registered and the *)
(* registry left alone, fed press LeftMeta, press KeyN, release KeyN,      *)
(* release LeftMeta with repeat events (value 2) in between.               *)
(***************************************************************************)
MaxRepeats == 2

EdgeBase ==
    <<RawEvent(KeyCodes["KeyLeftMeta"], 1), RawEvent(KeyCodes["KeyN"], 1),
      RawEvent(KeyCodes["KeyN"], 0), RawEvent(KeyCodes["KeyLeftMeta"], 0)>>

Repeats ==
    {RawEvent(KeyCodes["KeyLeftMeta"], 2), RawEvent(KeyCodes["KeyN"], 2)}

InsertAt(s, i, x) == SubSeq(s, 1, i) \o <<x>> \o SubSeq(s, i + 1, Len(s))

\* EdgeBase with up to n repeat events inserted while a key is held.
RECURSIVE WithRepeats(_)
WithRepeats(n) ==
    IF n = 0 THEN {EdgeBase}
    ELSE LET S == WithRepeats(n - 1)
         IN  S \cup UNION {{InsertAt(s, i, x) : i \in 1..(Len(s) - 1), x \in Repeats} :
                            s \in S}

\* The consumer's record of what it received, with the raw event that was
\* being processed.
Record(e, raw) ==
    [shortcut |-> e.shortcut, state |-> e.state, code |-> raw.code,
     value |-> raw.value]

InitEdge ==
    /\ shortcuts = {MetaN}
    /\ InitRegistry
    /\ InitPure
    /\ requested = <<"A">>
    /\ unopenable = {}
    /\ session = "running"
    /\ openErr = "none"
    /\ streams = <<"A">>
    /\ cur = 1
    /\ \E input \in WithRepeats(MaxRepeats) :
          /\ queue = [d \in Devices |-> IF d = "A" THEN input ELSE <<>>]
          /\ delivered = Len(input)
    /\ closed = [d \in Devices |-> FALSE]
    /\ pc = "next"
    /\ active_keys = {}
    /\ pressed_shortcuts = {}
    /\ todo = {}
    /\ yielded = None
    /\ event = NoEvent
    /\ prevActive = {}
    /\ prevPressed = {}
    /\ prevSnap = {}
    /\ curSnap = {}
    /\ emittedNow = {}
    /\ emitted = [s \in AllShortcuts |-> "none"]
    /\ out = <<>>

NextEdge ==
    \/ PollEvent
    \/ SnapLock
    \/ SnapCopy
    \/ \E s \in AllShortcuts :
          /\ ScanStep(s)
          /\ out' = IF yielded' # None THEN Append(out, Record(yielded', event))
                    ELSE out
    \/ Resume
    \/ ScanDone

SpecEdge == InitEdge /\ [][NextEdge]_vars

EdgeExpected ==
    <<[shortcut |-> MetaN, state |-> "Pressed", code |-> KeyCodes["KeyN"],
       value |-> 1],
      [shortcut |-> MetaN, state |-> "Released", code |-> KeyCodes["KeyN"],
       value |-> 0]>>

\* C1: with only <Meta>-KeyN registered, the sequence press LeftMeta, press
\* KeyN, release KeyN, release LeftMeta yields exactly {shortcut, Pressed}
\* while the KeyN press is processed and {shortcut, Released} while the KeyN
\* release is processed; the Meta events and the repeats yield nothing.
C1_EdgeScenario ==
    /\ Len(out) <= 2
    /\ out = SubSeq(EdgeExpected, 1, Len(out))
    /\ (pc = "next" /\ queue["A"] = <<>>) => out = EdgeExpected

\* A repeat of KeyN has been processed while both keys were held.
C1_Witness ==
    /\ pc = "next"
    /\ event = RawEvent(KeyCodes["KeyN"], 2)
    /\ active_keys = {"KeyLeftMeta", "KeyN"}
    /\ out = SubSeq(EdgeExpected, 1, 1)
    /\ delivered = Len(EdgeBase) + MaxRepeats

(***************************************************************************)
(* SpecRegistry: two threads calling add, remove and has while a session   *)
(* takes its snapshots; the calls are recorded with what they returned.    *)
(***************************************************************************)
MaxCalls == 4

Locked == {t \in Threads : tpc[t] = "locked"}

InitCalls ==
    /\ shortcuts = {}
    /\ InitRegistry
    /\ InitPure
    /\ InitSession

NextCalls ==
    \/ \E t \in Threads, op \in Ops, s \in Pool :
          /\ Len(callLog) + Cardinality(Locked) < MaxCalls
          /\ CallLock(t, op, s)
    \/ \E t \in Threads :
          /\ CallRun(t)
          /\ callLog' = Append(callLog,
                 [op |-> treq[t].op, s |-> treq[t].s,
                  ret |-> registry_call(treq[t].op, shortcuts, treq[t].s).ret])
    \/ Listen(<<"A">>, {"A"}, {"A"})
    \/ Arrive("A", RawEvent(KeyCodes["KeyP"], 1))
    \/ PollEvent
    \/ SnapLock
    \/ SnapCopy
    \/ \E s \in AllShortcuts : ScanStep(s) /\ UNCHANGED out
    \/ Resume
    \/ ScanDone

SpecRegistry == InitCalls /\ [][NextCalls]_vars

\* The set after the first n recorded calls, each taken as one step on a set.
RECURSIVE SetAfter(_, _)
SetAfter(log, n) ==
    IF n = 0 THEN {}
    ELSE LET before == SetAfter(log, n - 1)
             c == log[n]
         IN  CASE c.op = "add" -> before \cup {c.s}
               [] c.op = "remove" -> before \ {c.s}
               [] c.op = "has" -> before

\* C9: every add, remove and has call, from whichever thread, behaves as one
\* atomic step on a set: add returns true iff the shortcut was absent, remove
\* and has return true iff it was present, the registry is the set the calls
\* leave, and each snapshot of the loop is the registry between two calls.
C9_CallsAreAtomic ==
    /\ \A i \in 1..Len(callLog) :
          LET before == SetAfter(callLog, i - 1)
              c == callLog[i]
          IN  c.ret = IF c.op = "add" THEN c.s \notin before ELSE c.s \in before
    /\ shortcuts = SetAfter(callLog, Len(callLog))
    /\ \E k \in 0..Len(callLog) : curSnap = SetAfter(callLog, k)

LogEntry(op, s, ret) == [op |-> op, s |-> s, ret |-> ret]

\* add, add, remove, remove on an absent shortcut return true, false, true,
\* false, with a snapshot of the loop taken in between.
C9_Witness ==
    /\ callLog = <<LogEntry("add", PlainP, TRUE), LogEntry("add", PlainP, FALSE),
                   LogEntry("remove", PlainP, TRUE),
                   LogEntry("remove", PlainP, FALSE)>>
    /\ curSnap = {PlainP}
    /\ shortcuts = {}

\* C15: the loop holds the Mutex exactly while it copies the registry: never
\* while it evaluates shortcuts, is suspended at a yield or waits for the next
\* raw event.  At those points an idle caller can lock at once whenever no
\* other caller holds the Mutex, and a caller holding it always completes.
C15_LockOnlyForCopy ==
    /\ lock = "listener" <=> pc = "copy"
    /\ \A t \in Threads :
          /\ (tpc[t] = "idle" /\ pc # "copy" /\ lock \notin Threads) =>
                \A op \in Ops, s \in Pool : ENABLED CallLock(t, op, s)
          /\ tpc[t] = "locked" =>
                lock = t /\ ENABLED (CallRun(t) /\ UNCHANGED callLog)

\* A caller holds the Mutex while the loop is suspended at a yield.
C15_Witness ==
    /\ pc = "yield"
    /\ lock = "t2"
    /\ tpc["t2"] = "locked"

(***************************************************************************)
(* SpecPure: is_triggered applied to a shortcut and a set of active keys.  *)
(***************************************************************************)
PureShortcutKeys == {"KeyP", "KeyLeft"}

PureKeys == ModifierKeys \cup PureShortcutKeys

InitEval ==
    /\ shortcuts = {}
    /\ InitRegistry
    /\ InitSession
    /\ p_shortcut \in [modifiers : 0..255, key : PureShortcutKeys]
    /\ p_active \in SUBSET PureKeys
    /\ p_done = FALSE
    /\ p_result = FALSE
    /\ InitText

Evaluate ==
    /\ ~p_done
    /\ p_done' = TRUE
    /\ p_result' = is_triggered(p_shortcut, p_active)
    /\ UNCHANGED <<registryVars, deviceVars, loopVars, eventVars, callLog, out,
                   p_shortcut, p_active, textVars>>

SpecPure == InitEval /\ [][Evaluate]_vars

\* The matching rule as the specification words it: count is the number of
\* modifiers canonical_modifiers yields, for the overlap and for the desired mask.
SpecTriggered(shortcut, active) ==
    LET desired == shortcut.modifiers
        pressed == pressed_mask_of(active)
        overlap == BitAnd(desired, pressed)
    IN  /\ overlap = pressed
        /\ ModifierList_len(overlap) = ModifierList_len(desired)
        /\ shortcut.key \in active

\* C5 as stated: for every mask, key and set of active keys, is_triggered is
\* true iff overlap == pressed, count(overlap) == count(desired) and the key
\* is held, count being the number of canonical modifiers of a mask.
C5_MatchesSpecRule ==
    p_done => p_result = SpecTriggered(p_shortcut, p_active)

Case(shortcut, active, expected) ==
    (p_shortcut = shortcut /\ p_active = active) => p_result = expected

CtrlAltLeft == Shortcut_new(<<"Ctrl", "Alt">>, "KeyLeft")
LeftCtrlP == Shortcut_new(<<"LeftCtrl">>, "KeyP")
LeftCtrlLeftAltLeft == Shortcut_new(<<"LeftCtrl", "LeftAlt">>, "KeyLeft")

\* C6: the matching truth table of the crate's tests holds exactly.
C6_TruthTable ==
    p_done =>
      /\ Case(CtrlP, {}, FALSE)
      /\ Case(CtrlP, {"KeyLeftCtrl", "KeyP"}, TRUE)
      /\ Case(CtrlP, {"KeyRightCtrl", "KeyP"}, TRUE)
      /\ Case(CtrlP, {"KeyLeftCtrl", "KeyLeftAlt", "KeyP"}, FALSE)
      /\ Case(LeftCtrlP, {"KeyLeftCtrl", "KeyP"}, TRUE)
      /\ Case(LeftCtrlP, {"KeyRightCtrl", "KeyP"}, FALSE)
      /\ Case(LeftCtrlLeftAltLeft, {"KeyLeftCtrl", "KeyLeftAlt", "KeyLeft"}, TRUE)
      /\ Case(LeftCtrlLeftAltLeft, {"KeyLeftCtrl", "KeyRightAlt", "KeyLeft"}, FALSE)
      /\ (/\ p_shortcut = LeftCtrlLeftAltLeft
          /\ {"KeyLeft", "KeyLeftCtrl", "KeyLeftAlt"} \ p_active # {})
            => p_result = FALSE
      /\ Case(CtrlAltLeft, {"KeyLeftCtrl", "KeyRightAlt", "KeyLeft"}, TRUE)

C6_Witness ==
    /\ p_shortcut = CtrlAltLeft
    /\ p_active = {"KeyLeftCtrl", "KeyRightAlt", "KeyLeft"}
    /\ p_done
    /\ p_result = TRUE

\* The physical keys that satisfy a modifier: its own key for a side-specific
\* modifier, the left and the right key for a generic one.
KeysOfModifier(m) ==
    {k \in ModifierKeys : BitAnd(mask_from_key(k), Modifier_mask(m)) # 0}

\* Some key of the modifier m is held.
Held(m, active) == KeysOfModifier(m) \cap active # {}

\* The modifiers the shortcut demands, as a set.
Demanded(shortcut) ==
    {ModifierList_modifiers(shortcut.modifiers)[i] :
        i \in 1..ModifierList_len(shortcut.modifiers)}

\* C18: whenever is_triggered returns true, every modifier the shortcut
\* demands is held: a side-specific modifier by its own key, a generic one
\* by its left or its right key.
C18_TriggeredMeansHeld ==
    (p_done /\ p_result) =>
        \A m \in Demanded(p_shortcut) : Held(m, p_active)

Generic == {COMBINED_MODIFIERS[i] : i \in 1..Len(COMBINED_MODIFIERS)}

\* C19: a shortcut that demands a generic modifier is triggered whenever its
\* key is held, each demanded modifier has at least one of its keys held
\* (both keys of a generic one included) and no key of another modifier is
\* held; other ordinary keys held do not matter.
C19_GenericEitherOrBoth ==
    (/\ p_done
     /\ Demanded(p_shortcut) \cap Generic # {}
     /\ \A m \in Demanded(p_shortcut) : Held(m, p_active)
     /\ BitAnd(pressed_mask_of(p_active), p_shortcut.modifiers)
          = pressed_mask_of(p_active)
     /\ p_shortcut.key \in p_active)
        => p_result


(***************************************************************************)
(* SpecText: a shortcut is formatted, the string possibly loses one        *)
(* character, and the string is parsed.                                    *)
(***************************************************************************)
InitShow ==
    /\ shortcuts = {}
    /\ InitRegistry
    /\ InitSession
    /\ p_shortcut \in [modifiers : 0..255, key : PureShortcutKeys]
    /\ p_active = {}
    /\ p_done = FALSE
    /\ p_result = FALSE
    /\ p_list = <<>>
    /\ p_mods = <<>>
    /\ p_text = ""
    /\ p_parsed = NotParsed
    /\ p_stage = "shortcut"

systemVars == <<registryVars, deviceVars, loopVars, eventVars, callLog, out>>

\* format!("{}", shortcut), which runs modifiers() on the mask.
Show ==
    /\ p_stage = "shortcut"
    /\ p_mods' = ModifierList_modifiers(p_shortcut.modifiers)
    /\ p_text' = Shortcut_display(p_shortcut)
    /\ p_stage' = "shown"
    /\ UNCHANGED <<systemVars, p_shortcut, p_active, p_done, p_result,
                   p_list, p_parsed>>

\* The string loses its i-th character before it is parsed.
Damage(i) ==
    /\ p_stage = "shown"
    /\ ~p_parsed.done
    /\ i \in 1..Len(p_text)
    /\ p_text' = SubSeq(p_text, 1, i - 1) \o SubSeq(p_text, i + 1, Len(p_text))
    /\ p_stage' = "damaged"
    /\ UNCHANGED <<systemVars, p_shortcut, p_active, p_done, p_result,
                   p_list, p_mods, p_parsed>>

\* text.parse::<Shortcut>()
Parse ==
    /\ p_stage \in {"shown", "damaged"}
    /\ ~p_parsed.done
    /\ p_parsed' = Shortcut_from_str(p_text)
    /\ UNCHANGED <<systemVars, p_shortcut, p_active, p_done, p_result,
                   p_list, p_mods, p_text, p_stage>>

NextText ==
    \/ Show
    \/ \E i \in 1..Len(p_text) : Damage(i)
    \/ Parse

SpecText == InitShow /\ [][NextText]_vars

\* C11: parsing the display string of a shortcut yields the shortcut, for
\* each of the 256 masks; the display string has no '-' exactly when the
\* mask is empty.
C11_RoundTrip ==
    /\ (p_stage = "shown" /\ p_parsed.done) =>
          p_parsed = ParseOk(p_shortcut.modifiers, p_shortcut.key)
    /\ p_stage = "shown" =>
          (str_find(p_text, "-") = 0 <=> p_shortcut.modifiers = 0)

\* <Shift><LeftMeta>-KeyLeft and the bare KeyP have made the round trip.
C11_Witness ==
    /\ p_stage = "shown"
    /\ p_parsed.done /\ p_parsed.ok
    /\ p_text = "<Shift><LeftMeta>-KeyLeft"
    /\ p_parsed.shortcut = Shortcut_new(<<"LeftMeta", "Shift">>, "KeyLeft")

\* The strings "<Name>...<Name>" of known modifier names.
RECURSIVE WellFormedTokens(_)
WellFormedTokens(s) ==
    \/ s = ""
    \/ \E m \in Modifier :
          LET token == "<" \o m \o ">"
          IN  /\ Len(s) >= Len(token)
              /\ SubSeq(s, 1, Len(token)) = token
              /\ WellFormedTokens(SubSeq(s, Len(token) + 1, Len(s)))

\* A modifier token before the '-' is not exactly '<' Name '>' with a known
\* name, or the key name is unknown.
Malformed(s) ==
    LET i == str_find(s, "-")
    IN  IF i = 0 THEN s \notin Keys
        ELSE \/ ~WellFormedTokens(SubSeq(s, 1, i - 1))
             \/ SubSeq(s, i + 1, Len(s)) \notin Keys

\* C12: parsing returns ParseError whenever a modifier token before the '-'
\* is malformed (missing '<', missing '>', unknown name) or the key name is
\* unknown; no such string yields a Shortcut.
C12_MalformedIsRejected ==
    (p_parsed.done /\ Malformed(p_text)) => ~p_parsed.ok

\* C13: for each of the 256 masks, modifiers() never yields a generic
\* modifier together with one of its side-specific counterparts, and the OR
\* of the masks of the modifiers it yields is the mask.
C13_Canonical ==
    p_stage = "shown" =>
      /\ \A i, j \in 1..Len(p_mods) :
            (p_mods[i] \in Generic /\ i # j) =>
               BitAnd(Modifier_mask(p_mods[i]), Modifier_mask(p_mods[j])) = 0
      /\ ModifierList_new(p_mods) = p_shortcut.modifiers

\* The mask of Alt with LeftCtrl and RightShift: three modifiers, Alt once.
C13_Witness ==
    /\ p_stage = "shown"
    /\ p_shortcut.modifiers = 135
    /\ p_mods = <<"Alt", "LeftCtrl", "RightShift">>


(***************************************************************************)
(* SpecList: a ModifierList is built from a slice of modifiers and its     *)
(* modifiers() are collected.                                              *)
(***************************************************************************)
\* The family of a modifier: the generic modifier whose bits cover its own.
Family(m) ==
    CHOOSE g \in Generic :
        BitAnd(Modifier_mask(g), Modifier_mask(m)) = Modifier_mask(m)

Range(list) == {list[i] : i \in 1..Len(list)}

NoDuplicates(list) == \A i, j \in 1..Len(list) : list[i] = list[j] => i = j

OnePerFamily(list) ==
    \A i, j \in 1..Len(list) : Family(list[i]) = Family(list[j]) => i = j

\* The sequences that list each element of the set once.
Orderings(S) ==
    {list \in [1..Cardinality(S) -> S] : Range(list) = S}

\* The slices given to new: every ordering of every set of modifiers of
\* different families, and the slices of two modifiers of one family.
InputLists ==
    UNION {Orderings(S) :
              S \in {X \in SUBSET Modifier :
                        \A a, b \in X : Family(a) = Family(b) => a = b}}
      \cup {list \in Modifier \X Modifier : Family(list[1]) = Family(list[2])}

InitList ==
    /\ shortcuts = {}
    /\ InitRegistry
    /\ InitSession
    /\ p_shortcut = NoShortcut
    /\ p_active = {}
    /\ p_done = FALSE
    /\ p_result = FALSE
    /\ p_list \in InputLists
    /\ p_mods = <<>>
    /\ p_text = ""
    /\ p_parsed = NotParsed
    /\ p_stage = "slice"

\* ModifierList::new(modifiers), within Shortcut::new.
New(key) ==
    /\ p_stage = "slice"
    /\ p_shortcut' = Shortcut_new(p_list, key)
    /\ p_stage' = "built"
    /\ UNCHANGED <<systemVars, p_active, p_done, p_result, p_list, p_mods,
                   p_text, p_parsed>>

\* .modifiers().collect::<Vec<_>>()
Collect ==
    /\ p_stage = "built"
    /\ p_mods' = ModifierList_modifiers(p_shortcut.modifiers)
    /\ p_stage' = "collected"
    /\ UNCHANGED <<systemVars, p_shortcut, p_active, p_done, p_result, p_list,
                   p_text, p_parsed>>

NextList ==
    \/ \E key \in PureShortcutKeys : New(key)
    \/ Collect

SpecList == InitList /\ [][NextList]_vars

\* The slice in the order of ALL_MODIFIERS.
InFixedOrder(list) == SelectSeq(ALL_MODIFIERS, LAMBDA m : m \in Range(list))

\* C14: for a slice with no duplicates and at most one modifier per family,
\* new(slice).modifiers() yields the modifiers of the slice in the order of
\* ALL_MODIFIERS: the slice itself when it is in that order, and the same
\* ModifierList and the same sequence for every other order of the slice.
C14_NewThenModifiers ==
    (p_stage = "collected" /\ NoDuplicates(p_list) /\ OnePerFamily(p_list)) =>
      /\ p_mods = InFixedOrder(p_list)
      /\ p_list = InFixedOrder(p_list) => p_mods = p_list
      /\ p_shortcut.modifiers = ModifierList_new(InFixedOrder(p_list))

\* [LeftCtrl, LeftAlt], the slice of the crate's test in the other order,
\* yields [LeftAlt, LeftCtrl].
C14_Witness ==
    /\ p_stage = "collected"
    /\ p_list = <<"LeftCtrl", "LeftAlt">>
    /\ p_mods = <<"LeftAlt", "LeftCtrl">>
    /\ p_shortcut.modifiers = 5

====
